---------------------------- MODULE Spec2Model ----------------------------
(***************************************************************************)
(* A model of graph_searcher's graph engine:                               *)
(*   data_structures/vertex/*.py, data_structures/edge/edge.py and         *)
(*   data_structures/graph/{graph,undirected_graph,directed_graph}.py.     *)
(*                                                                         *)
(* Python objects live in two heaps, `vertex` and `edge` (sequences of     *)
(* records, an object's identity is its index), and `graph` is the one     *)
(* Graph object.  Every method of the source is an operator from a world   *)
(* (graph, vertex, edge, err, ret) to the world it leaves behind; a raised *)
(* exception is the field err, set at the statement that raises, so what   *)
(* the statements before it changed stays changed.                         *)
(*                                                                         *)
(* Coordinates are one-dimensional integers, for which the L1 and the L2   *)
(* norm of the source are both the absolute value.                         *)
(***************************************************************************)
EXTENDS Integers, Sequences, FiniteSets, TLC

VARIABLES graph, vertex, edge, call, search, saved

vars == <<graph, vertex, edge, call, search, saved>>

---------------------------------------------------------------------------
(* Bounds of the model *)

\* Vertex objects a behaviour of Spec creates
MaxVertices == 3
\* Edge objects a behaviour of Spec creates
MaxEdges == 2
\* Vertices of the scripted graphs the search specification draws
SearchVertices == 3
\* add_edge calls of the scripted graphs the search specification draws
SearchEdges == 2
\* Vertices of the simple undirected graphs the search specification draws
SimpleVertices == 4
\* Iterations of the path-reconstruction loop the model follows
MaxWalk == 6

---------------------------------------------------------------------------
(* Python values *)

\* Python's None, for integer-valued attributes and object references
None == -1
\* None as a vertex name
NoName == "<None>"
\* no exception raised
NoError == "NoError"

Abs(x) == IF x < 0 THEN -x ELSE x

Last(s) == s[Len(s)]
Front(s) == SubSeq(s, 1, Len(s) - 1)
InSeq(x, s) == \E i \in 1..Len(s) : s[i] = x
Range(s) == {s[i] : i \in 1..Len(s)}

\* index of the first occurrence of x in s (0 when absent)
IndexOf(x, s) ==
    IF InSeq(x, s) THEN CHOOSE i \in 1..Len(s) : s[i] = x /\ \A j \in 1..(i-1) : s[j] # x
    ELSE 0

\* s without its i-th element
RemoveAt(s, i) == SubSeq(s, 1, i - 1) \o SubSeq(s, i + 1, Len(s))

\* list.remove(x): drops the first occurrence
ListRemove(s, x) == RemoveAt(s, IndexOf(x, s))

EmptyDict == [n \in {} |-> None]
DictSet(d, k, v) == [n \in (DOMAIN d) \cup {k} |-> IF n = k THEN v ELSE d[n]]
DictDel(d, k) == [n \in (DOMAIN d) \ {k} |-> d[n]]

\* f"#{n}"
DefaultName(n) ==
    CASE n = 0 -> "#0" [] n = 1 -> "#1" [] n = 2 -> "#2" [] n = 3 -> "#3"
      [] n = 4 -> "#4" [] n = 5 -> "#5" [] n = 6 -> "#6" [] OTHER -> "#7+"

---------------------------------------------------------------------------
(* Worlds *)

World(g, v, e) == [graph |-> g, vertex |-> v, edge |-> e, err |-> NoError, ret |-> None]
Raise(w, exc) == [w EXCEPT !.err = exc, !.ret = None]
Return(w, r) == [w EXCEPT !.ret = r]

\* Graph.__init__
Graph_init(kind, metric, heuristic) ==
    [ id |-> 1,                          \* the identity of the graph object
      kind |-> kind,
      vertexlist |-> <<>>,
      vertexdict |-> EmptyDict,
      edgelist |-> {},
      metric |-> metric,
      heuristic |-> heuristic,
      attrs |-> {},                      \* attributes assigned outside __init__
      connectivitychange |-> FALSE,      \* meaningful once in attrs
      ncomponents |-> None ]             \* meaningful once in attrs

\* Vertex.__init__ (kind is the subclass, "U" or "D")
Vertex_init(kind, coord, name) ==
    [ kind |-> kind,
      name |-> name,
      coord |-> coord,
      label |-> None,
      connectivitychange |-> TRUE,
      edgelist |-> <<>>,
      graph |-> None ]

\* Graph._metricfunc: L1 and L2 of a one-dimensional vector
metricfunc(metric, d) ==
    CASE metric = "L1" -> Abs(d)
      [] metric = "L2" -> Abs(d)

\* Edge.__init__: the cost given, else the metric distance, else None
Edge_init(w, v1, v2, cost) ==
    [ v1 |-> v1,
      v2 |-> v2,
      cost |-> IF cost # None THEN cost
               ELSE IF ~(v1 = None \/ w.vertex[v1].coord = None
                         \/ v2 = None \/ w.vertex[v2].coord = None)
                    THEN metricfunc(w.graph.metric, w.vertex[v1].coord - w.vertex[v2].coord)
                    ELSE None ]

\* Edge.next: the other end of edge e seen from vertex v (None: raises)
Edge_next(w, e, v) ==
    IF w.edge[e].v1 = v THEN w.edge[e].v2
    ELSE IF w.edge[e].v2 = v THEN w.edge[e].v1
    ELSE None

\* Vertex.incidences: (neighbour, edge) for every edge of the incidence list
Vertex_incidences(w, v) ==
    [i \in 1..Len(w.vertex[v].edgelist) |->
        <<Edge_next(w, w.vertex[v].edgelist[i], v), w.vertex[v].edgelist[i]>>]

\* Vertex.neighbours
Vertex_neighbours(w, v) ==
    [i \in 1..Len(w.vertex[v].edgelist) |-> Edge_next(w, w.vertex[v].edgelist[i], v)]

\* Vertex.edgeto: the first edge of the incidence list that leads to dest
\* (None: raises ValueError)
Vertex_edgeto(w, v, dest) ==
    LET inc == Vertex_incidences(w, v)
        hits == {i \in 1..Len(inc) : inc[i][1] = dest}
    IN IF hits = {} THEN None
       ELSE inc[CHOOSE i \in hits : \A j \in hits : i <= j][2]

---------------------------------------------------------------------------
(* add_vertex *)

\* Graph.add_vertex(vertex, name) on the vertex object v
Graph_add_vertex(w, v, name) ==
    LET name1 == IF name = NoName THEN w.vertex[v].name ELSE name
        name2 == IF name1 = NoName THEN DefaultName(Len(w.graph.vertexlist)) ELSE name1
    IN Return([w EXCEPT !.vertex[v].name = name2,
                        !.vertex[v].graph = w.graph.id,
                        !.graph.vertexlist = Append(@, v),
                        !.graph.vertexdict = DictSet(@, name2, v),
                        !.graph.connectivitychange = TRUE,
                        !.graph.attrs = @ \cup {"_connectivitychange"}], v)

\* UndirectedGraph.add_vertex(coord, name)
UndirectedGraph_add_vertex(w, coord, name) ==
    LET w1 == [w EXCEPT !.vertex = Append(@, Vertex_init("U", coord, NoName))]
    IN Graph_add_vertex(w1, Len(w1.vertex), name)

\* DirectedGraph.add_vertex(coord, name): the names Vertex and DVertex are
\* not defined in directed_graph.py, the first statement raises
DirectedGraph_add_vertex(w, coord, name) == Raise(w, "NameError")

\* Graph.add_vertex(DirectedVertex(coord, name)) called on the superclass
Graph_add_directed_vertex(w, coord, name) ==
    LET w1 == [w EXCEPT !.vertex = Append(@, Vertex_init("D", coord, name))]
    IN Graph_add_vertex(w1, Len(w1.vertex), NoName)

---------------------------------------------------------------------------
(* connect, add_edge *)

\* cls.__bases__[0] of a vertex class
ClassBase(kind) == "Vertex"

\* Vertex.connect(dest, cost=cost)
Vertex_connect(w, self, dest, cost) ==
    IF ClassBase(w.vertex[dest].kind) # ClassBase(w.vertex[self].kind)
    THEN Raise(w, "TypeError")
    ELSE IF w.vertex[self].graph = None
    THEN Raise(w, "AttributeError")
    ELSE LET e == Len(w.edge) + 1
         IN Return([w EXCEPT !.edge = Append(@, Edge_init(w, self, dest, cost)),
                             !.graph.edgelist = @ \cup {e},
                             !.graph.connectivitychange = TRUE,
                             !.graph.attrs = @ \cup {"_connectivitychange"},
                             !.vertex[self].connectivitychange = TRUE], e)

\* UndirectedVertex.connect(other, cost=cost), as MutantConnectOneSided a
\* variant that forgets other's incidence list
MutantConnectOneSided(w, self, other, cost) ==
    LET w1 == Vertex_connect(w, self, other, cost)
    IN IF w1.err # NoError THEN w1
       ELSE [w1 EXCEPT !.vertex[self].edgelist = Append(@, w1.ret)]

UndirectedVertex_connect(w, self, other, cost) ==
    LET w1 == Vertex_connect(w, self, other, cost)
    IN IF w1.err # NoError THEN w1
       ELSE LET w2 == [w1 EXCEPT !.vertex[self].edgelist = Append(@, w1.ret)]
                w3 == [w2 EXCEPT !.vertex[other].edgelist = Append(@, w1.ret)]
            IN [w3 EXCEPT !.graph.edgelist = @ \cup {w1.ret}]

\* DirectedVertex.connect(other, cost=cost)
DirectedVertex_connect(w, self, other, cost) ==
    LET w1 == Vertex_connect(w, self, other, cost)
    IN IF w1.err # NoError THEN w1
       ELSE [w1 EXCEPT !.vertex[self].edgelist = Append(@, w1.ret)]

\* v1.connect(v2, cost=cost), dispatched on the class of v1
connect(w, v1, v2, cost) ==
    IF w.vertex[v1].kind = "U" THEN UndirectedVertex_connect(w, v1, v2, cost)
    ELSE DirectedVertex_connect(w, v1, v2, cost)

\* Graph.add_edge(v1, v2, cost=cost) with vertex references
Graph_add_edge(w, v1, v2, cost) == connect(w, v1, v2, cost)

\* Graph.add_edge(n1, n2, cost=cost) with vertex names: self[name] raises
\* KeyError for a name the dictionary does not hold
Graph_add_edge_by_name(w, n1, n2, cost) ==
    IF n1 \notin DOMAIN w.graph.vertexdict \/ n2 \notin DOMAIN w.graph.vertexdict
    THEN Raise(w, "KeyError")
    ELSE Graph_add_edge(w, w.graph.vertexdict[n1], w.graph.vertexdict[n2], cost)

---------------------------------------------------------------------------
(* remove *)

\* Graph.remove(x) for an Edge x
Graph_remove_edge(w, x) ==
    LET a == w.edge[x].v1
        b == w.edge[x].v2
    IN IF a = None THEN Raise(w, "AttributeError")
       ELSE IF ~InSeq(x, w.vertex[a].edgelist) THEN Raise(w, "ValueError")
       ELSE LET w1 == [w EXCEPT !.vertex[a].edgelist = ListRemove(@, x)]
            IN IF ~InSeq(x, w1.vertex[b].edgelist) THEN Raise(w1, "ValueError")
               ELSE LET w2 == [w1 EXCEPT !.vertex[b].edgelist = ListRemove(@, x)]
                        w3 == [w2 EXCEPT !.vertex[a].connectivitychange = TRUE]
                        w4 == [w3 EXCEPT !.vertex[b].connectivitychange = TRUE,
                                         !.graph.connectivitychange = TRUE,
                                         !.graph.attrs = @ \cup {"_connectivitychange"},
                                         !.edge[x].v1 = None,
                                         !.edge[x].v2 = None]
                    IN IF x \notin w4.graph.edgelist THEN Raise(w4, "KeyError")
                       ELSE [w4 EXCEPT !.graph.edgelist = @ \ {x}]

\* for edge in copy.copy(x._edgelist): self.remove(edge)
RECURSIVE RemoveEdges(_, _)
RemoveEdges(w, es) ==
    IF es = <<>> THEN w
    ELSE LET w1 == Graph_remove_edge(w, Head(es))
         IN IF w1.err # NoError THEN w1 ELSE RemoveEdges(w1, Tail(es))

\* Graph.remove(x) for a Vertex x
Graph_remove_vertex(w, x) ==
    LET w1 == RemoveEdges(w, w.vertex[x].edgelist)
    IN IF w1.err # NoError THEN w1
       ELSE IF ~InSeq(x, w1.graph.vertexlist) THEN Raise(w1, "ValueError")
       ELSE LET w2 == [w1 EXCEPT !.graph.vertexlist = ListRemove(@, x)]
            IN IF w2.vertex[x].name \notin DOMAIN w2.graph.vertexdict
               THEN Raise(w2, "KeyError")
               ELSE [w2 EXCEPT !.graph.vertexdict = DictDel(@, w2.vertex[x].name)]

---------------------------------------------------------------------------
(* connected components of an undirected graph *)

\* the flood fill of UndirectedGraph._graphcolor: q is the list of vertices
\* still to expand, vs the vertex heap
RECURSIVE Flood(_, _, _)
Flood(w, q, label) ==
    IF Len(q) = 0 THEN w
    ELSE LET v == Last(q)
             w1 == [w EXCEPT !.vertex[v].label = label]
             ns == Vertex_neighbours(w1, v)
             push == SelectSeq(ns, LAMBDA n : w1.vertex[n].label = None)
         IN Flood(w1, Front(q) \o push, label)

\* the first vertex of the graph with no label (None: there is none)
FirstUnlabelled(w) ==
    LET vl == w.graph.vertexlist
        idx == {i \in 1..Len(vl) : w.vertex[vl[i]].label = None}
    IN IF idx = {} THEN None ELSE vl[CHOOSE i \in idx : \A j \in idx : i <= j]

\* for label in range(self.number_of_vertices): ... ; ret is lastlabel
RECURSIVE ColourLoop(_, _, _)
ColourLoop(w, label, lastlabel) ==
    IF label >= Cardinality(DOMAIN w.graph.vertexdict) THEN Return(w, lastlabel)
    ELSE LET v == FirstUnlabelled(w)
         IN IF v = None THEN Return(w, lastlabel)
            ELSE ColourLoop(Flood(w, <<v>>, label), label + 1, label)

\* for vertex in self: vertex.label = None; vertex._connectivitychange = False
ClearLabels(w) ==
    [w EXCEPT !.vertex = [v \in DOMAIN w.vertex |->
        IF InSeq(v, w.graph.vertexlist)
        THEN [w.vertex[v] EXCEPT !.label = None, !.connectivitychange = FALSE]
        ELSE w.vertex[v]]]

\* UndirectedGraph._graphcolor
UndirectedGraph_graphcolor(w) ==
    IF "_connectivitychange" \notin w.graph.attrs THEN Raise(w, "AttributeError")
    ELSE IF w.graph.connectivitychange
            \/ \E v \in Range(w.graph.vertexlist) : w.vertex[v].connectivitychange
    THEN LET w1 == ColourLoop(ClearLabels(w), 0, None)
         IN IF w1.ret = None THEN Raise(w1, "TypeError")
            ELSE Return([w1 EXCEPT !.graph.ncomponents = w1.ret + 1,
                                   !.graph.attrs = @ \cup {"_ncomponents"}], None)
    ELSE w

\* Graph.number_of_components of an undirected graph
number_of_components(w) ==
    LET w1 == UndirectedGraph_graphcolor(w)
    IN IF w1.err # NoError THEN w1
       ELSE IF "_ncomponents" \notin w1.graph.attrs THEN Raise(w1, "AttributeError")
       ELSE Return(w1, w1.graph.ncomponents)

---------------------------------------------------------------------------
(* The path searches.  A search is a record s: where the call stands (pc), *)
(* its locals, and its result.  Step is one step of the code: one          *)
(* iteration head of the while loop ("loop"), one pass of the body of the  *)
(* for loop over the neighbours of x ("expand"), or one iteration of the   *)
(* path-reconstruction loop ("walk").                                      *)

\* the locals at the top of path_BFS, path_UCS, path_Astar
StartSearch(alg, S, G) ==
    [ alg |-> alg, S |-> S, G |-> G,
      pc |-> "loop",
      frontier |-> <<S>>,
      explored |-> <<>>,
      parent |-> EmptyDict,
      f |-> IF alg = "BFS" THEN EmptyDict ELSE DictSet(EmptyDict, S, 0),
      g |-> IF alg = "Astar" THEN DictSet(EmptyDict, S, 0) ELSE EmptyDict,
      x |-> None,
      todo |-> <<>>,
      path |-> <<>>,
      length |-> 0,
      result |-> "running" ]

\* the call ends: it returns (result "path" or "None") or raises (result is
\* the exception)
Finish(s, result) == [s EXCEPT !.pc = "done", !.result = result]

\* the code after the while loop: x = G; path = [x]; length = 0
BeginWalk(s) == [s EXCEPT !.pc = "walk", !.x = s.G, !.path = <<s.G>>, !.length = 0,
                          !.todo = <<>>]

\* np.argmin([f[n] for n in frontier]): the first index of the minimum
ArgMin(f, frontier) ==
    CHOOSE i \in 1..Len(frontier) :
        /\ \A j \in 1..Len(frontier) : f[frontier[i]] <= f[frontier[j]]
        /\ \A j \in 1..(i-1) : f[frontier[j]] # f[frontier[i]]

\* Vertex.heuristic_distance(G) (None: coord - coord raises TypeError)
heuristic_distance(w, n, G) ==
    IF w.vertex[n].coord = None \/ w.vertex[G].coord = None THEN None
    ELSE metricfunc(w.graph.heuristic, w.vertex[n].coord - w.vertex[G].coord)

\* x = frontier.pop(0) of path_BFS
BFS_pop(s) ==
    [s EXCEPT !.x = Head(s.frontier), !.frontier = Tail(s.frontier)]

\* the head of the while loop: while frontier: x = frontier.pop(...)
LoopStep(w, s) ==
    IF s.frontier = <<>> THEN Finish(s, "None")
    ELSE IF s.alg = "BFS"
    THEN LET s1 == BFS_pop(s)
         IN [s1 EXCEPT !.todo = Vertex_incidences(w, s1.x), !.pc = "expand"]
    ELSE LET i == ArgMin(s.f, s.frontier)
             x == s.frontier[i]
             s1 == [s EXCEPT !.x = x, !.frontier = RemoveAt(s.frontier, i)]
         IN IF x = s.G THEN BeginWalk(s1)
            ELSE [s1 EXCEPT !.todo = Vertex_incidences(w, x), !.pc = "expand"]

\* the body of "for n in x.neighbours()" of path_BFS for the neighbour n, as
\* MutantBFSReparent a variant that gives a neighbour already in the
\* frontier the expanded vertex as its new parent
MutantBFSReparent(w, s, n) ==
    IF n = s.G
    THEN BeginWalk([s EXCEPT !.parent = DictSet(@, n, s.x)])
    ELSE IF ~InSeq(n, s.frontier) /\ ~InSeq(n, s.explored)
    THEN [s EXCEPT !.frontier = Append(@, n),
                   !.parent = DictSet(@, n, s.x),
                   !.todo = Tail(@)]
    ELSE IF InSeq(n, s.frontier)
    THEN [s EXCEPT !.parent = DictSet(@, n, s.x), !.todo = Tail(@)]
    ELSE [s EXCEPT !.todo = Tail(@)]

BFS_neighbour(w, s, n) ==
    IF n = s.G
    THEN BeginWalk([s EXCEPT !.parent = DictSet(@, n, s.x)])
    ELSE IF ~InSeq(n, s.frontier) /\ ~InSeq(n, s.explored)
    THEN [s EXCEPT !.frontier = Append(@, n),
                   !.parent = DictSet(@, n, s.x),
                   !.todo = Tail(@)]
    ELSE [s EXCEPT !.todo = Tail(@)]

\* the body of "for n, e in x.incidences()" of path_UCS
UCS_neighbour(w, s, n, e) ==
    IF w.edge[e].cost = None THEN Finish(s, "TypeError")
    ELSE LET fnew == s.f[s.x] + w.edge[e].cost
         IN IF ~InSeq(n, s.frontier) /\ ~InSeq(n, s.explored)
            THEN [s EXCEPT !.parent = DictSet(@, n, s.x),
                           !.f = DictSet(@, n, fnew),
                           !.frontier = Append(@, n),
                           !.todo = Tail(@)]
            ELSE IF InSeq(n, s.frontier) /\ fnew < s.f[n]
            THEN [s EXCEPT !.f = DictSet(@, n, fnew),
                           !.parent = DictSet(@, n, s.x),
                           !.todo = Tail(@)]
            ELSE [s EXCEPT !.todo = Tail(@)]

\* the body of "for n, e in x.incidences()" of path_Astar, as
\* MutantAstarSubtractsHeuristic a variant whose f is g minus the heuristic
MutantAstarSubtractsHeuristic(w, s, n, e) ==
    LET h == heuristic_distance(w, n, s.G)
        gnew == s.g[s.x] + w.edge[e].cost
    IN IF ~InSeq(n, s.frontier) /\ ~InSeq(n, s.explored)
       THEN IF w.edge[e].cost = None \/ h = None THEN Finish(s, "TypeError")
            ELSE [s EXCEPT !.frontier = Append(@, n),
                           !.parent = DictSet(@, n, s.x),
                           !.g = DictSet(@, n, gnew),
                           !.f = DictSet(@, n, gnew - h),
                           !.todo = Tail(@)]
       ELSE IF InSeq(n, s.frontier)
       THEN IF w.edge[e].cost = None THEN Finish(s, "TypeError")
            ELSE IF gnew < s.g[n]
            THEN IF h = None THEN Finish(s, "TypeError")
                 ELSE [s EXCEPT !.g = DictSet(@, n, gnew),
                                !.f = DictSet(@, n, gnew - h),
                                !.parent = DictSet(@, n, s.x),
                                !.todo = Tail(@)]
            ELSE [s EXCEPT !.todo = Tail(@)]
       ELSE [s EXCEPT !.todo = Tail(@)]

Astar_neighbour(w, s, n, e) ==
    LET h == heuristic_distance(w, n, s.G)
        gnew == s.g[s.x] + w.edge[e].cost
    IN IF ~InSeq(n, s.frontier) /\ ~InSeq(n, s.explored)
       THEN IF w.edge[e].cost = None \/ h = None THEN Finish(s, "TypeError")
            ELSE [s EXCEPT !.frontier = Append(@, n),
                           !.parent = DictSet(@, n, s.x),
                           !.g = DictSet(@, n, gnew),
                           !.f = DictSet(@, n, gnew + h),
                           !.todo = Tail(@)]
       ELSE IF InSeq(n, s.frontier)
       THEN IF w.edge[e].cost = None THEN Finish(s, "TypeError")
            ELSE IF gnew < s.g[n]
            THEN IF h = None THEN Finish(s, "TypeError")
                 ELSE [s EXCEPT !.g = DictSet(@, n, gnew),
                                !.f = DictSet(@, n, gnew + h),
                                !.parent = DictSet(@, n, s.x),
                                !.todo = Tail(@)]
            ELSE [s EXCEPT !.todo = Tail(@)]
       ELSE [s EXCEPT !.todo = Tail(@)]

\* one pass of the for loop, or its end: explored.append(x)
ExpandStep(w, s) ==
    IF s.todo = <<>>
    THEN [s EXCEPT !.explored = Append(@, s.x), !.pc = "loop"]
    ELSE LET n == Head(s.todo)[1]
             e == Head(s.todo)[2]
         IN CASE s.alg = "BFS" -> BFS_neighbour(w, s, n)
              [] s.alg = "UCS" -> UCS_neighbour(w, s, n, e)
              [] s.alg = "Astar" -> Astar_neighbour(w, s, n, e)

\* the edge whose cost the reconstruction adds for the step from p to x:
\* x.edgeto(p) in path_BFS, p.edgeto(x) in path_UCS and path_Astar
WalkEdge(w, alg, p, x) ==
    IF alg = "BFS" THEN Vertex_edgeto(w, x, p) ELSE Vertex_edgeto(w, p, x)

\* one iteration of "while x is not S", or its end: return path, length
WalkStep(w, s) ==
    IF s.x = s.S THEN Finish(s, "path")
    ELSE IF s.x \notin DOMAIN s.parent THEN Finish(s, "KeyError")
    ELSE LET p == s.parent[s.x]
             e == WalkEdge(w, s.alg, p, s.x)
         IN IF e = None THEN Finish(s, "ValueError")
            ELSE IF w.edge[e].cost = None THEN Finish(s, "TypeError")
            ELSE [s EXCEPT !.length = @ + w.edge[e].cost,
                           !.path = <<p>> \o @,
                           !.x = p]

Step(w, s) ==
    CASE s.pc = "loop" -> LoopStep(w, s)
      [] s.pc = "expand" -> ExpandStep(w, s)
      [] s.pc = "walk" -> WalkStep(w, s)

\* The reconstruction loop follows the fixed map parent from G: once the
\* path holds more entries than there are vertex objects some vertex has
\* come up twice before S did, and the loop never ends.
Diverged(w, s) == s.pc = "walk" /\ Len(s.path) > Len(w.vertex)

\* the whole call: the final record, or the record where it is known never
\* to return
RECURSIVE Run(_, _)
Run(w, s) ==
    IF s.pc = "done" \/ Diverged(w, s) THEN s ELSE Run(w, Step(w, s))

path_BFS(w, S, G) == Run(w, StartSearch("BFS", S, G))
path_UCS(w, S, G) == Run(w, StartSearch("UCS", S, G))
path_Astar(w, S, G) == Run(w, StartSearch("Astar", S, G))

---------------------------------------------------------------------------
(* The graph API as a state machine *)

Here == World(graph, vertex, edge)

\* the record of the last call: the operation, its arguments (for remove:
\* the element and its two endpoints), whether the element removed belonged
\* to the graph, the exception raised and the value returned
Call(op, a1, a2, a3, member, w) ==
    [op |-> op, a1 |-> a1, a2 |-> a2, a3 |-> a3, member |-> member,
     err |-> w.err, ret |-> w.ret]

NoCall == [op |-> "none", a1 |-> None, a2 |-> None, a3 |-> None, member |-> FALSE,
           err |-> NoError, ret |-> None]

NoSearch == [pc |-> "idle"]

\* the world a call leaves behind becomes the state
Becomes(w) ==
    /\ graph' = w.graph
    /\ vertex' = w.vertex
    /\ edge' = w.edge

Kinds == {"U", "D"}
CoordChoices == {None}
NameChoices == {NoName}
CostChoices == {1}

InitGraph(kind) ==
    /\ graph = Graph_init(kind, "L1", "L1")
    /\ vertex = <<>>
    /\ edge = <<>>
    /\ call = NoCall

Init ==
    /\ \E kind \in Kinds : InitGraph(kind)
    /\ search = NoSearch
    /\ saved = <<>>

\* g.add_vertex(coord, name)
AddVertex ==
    /\ Len(vertex) < MaxVertices
    /\ \E coord \in CoordChoices, name \in NameChoices :
          LET w == IF graph.kind = "U"
                   THEN UndirectedGraph_add_vertex(Here, coord, name)
                   ELSE Graph_add_directed_vertex(Here, coord, name)
          IN /\ Becomes(w)
             /\ call' = Call("add_vertex", coord, None, None, FALSE, w)
    /\ UNCHANGED <<search, saved>>

\* DirectedGraph.add_vertex(coord, name) itself
AddVertexDirected ==
    /\ graph.kind = "D"
    /\ \E coord \in CoordChoices, name \in NameChoices :
          LET w == DirectedGraph_add_vertex(Here, coord, name)
          IN /\ Becomes(w)
             /\ call' = Call("add_vertex", coord, None, None, FALSE, w)
    /\ UNCHANGED <<search, saved>>

\* g.add_edge(v1, v2, cost=cost) for two vertices of the graph
AddEdge ==
    /\ Len(edge) < MaxEdges
    /\ \E v1 \in Range(graph.vertexlist), v2 \in Range(graph.vertexlist),
          cost \in CostChoices :
          LET w == Graph_add_edge(Here, v1, v2, cost)
          IN /\ Becomes(w)
             /\ call' = Call("add_edge", v1, v2, cost, FALSE, w)
    /\ UNCHANGED <<search, saved>>

\* g.add_edge(n1, n2) with names, one of which may be unknown
AddEdgeByName ==
    /\ Len(edge) < MaxEdges
    /\ \E n1 \in {DefaultName(0), DefaultName(1)}, n2 \in {DefaultName(0), DefaultName(MaxVertices)},
          cost \in CostChoices :
          LET w == Graph_add_edge_by_name(Here, n1, n2, cost)
          IN /\ Becomes(w)
             /\ call' = Call("add_edge",
                             IF w.err = NoError THEN graph.vertexdict[n1] ELSE None,
                             IF w.err = NoError THEN graph.vertexdict[n2] ELSE None,
                             cost, FALSE, w)
    /\ UNCHANGED <<search, saved>>

\* g.remove(e) for an edge object the caller holds
RemoveEdge ==
    /\ \E x \in 1..Len(edge) :
          LET w == Graph_remove_edge(Here, x)
          IN /\ Becomes(w)
             /\ call' = Call("remove_edge", x, edge[x].v1, edge[x].v2,
                             x \in graph.edgelist, w)
    /\ UNCHANGED <<search, saved>>

\* g.remove(v) for a vertex object the caller holds
RemoveVertex ==
    /\ \E x \in 1..Len(vertex) :
          LET w == Graph_remove_vertex(Here, x)
          IN /\ Becomes(w)
             /\ call' = Call("remove_vertex", x, None, None,
                             InSeq(x, graph.vertexlist), w)
    /\ UNCHANGED <<search, saved>>

\* g.number_of_components on an undirected graph
NumberOfComponents ==
    /\ graph.kind = "U"
    /\ LET w == number_of_components(Here)
       IN /\ Becomes(w)
          /\ call' = Call("number_of_components", None, None, None, FALSE, w)
    /\ UNCHANGED <<search, saved>>

Next ==
    \/ AddVertex
    \/ AddVertexDirected
    \/ AddEdge
    \/ AddEdgeByName
    \/ RemoveEdge
    \/ RemoveVertex
    \/ NumberOfComponents

Spec == Init /\ [][Next]_vars

---------------------------------------------------------------------------
(* The calls of the graph API that complete without error *)

\* the call of the step returns, it does not raise
Completes == call'.err = NoError

NextClean ==
    \/ AddVertex /\ Completes
    \/ AddEdge /\ Completes
    \/ AddEdgeByName /\ Completes
    \/ RemoveEdge /\ Completes
    \/ RemoveVertex /\ Completes

SpecClean == Init /\ [][NextClean]_vars

---------------------------------------------------------------------------
(* add_vertex with and without a name, and remove *)

GivenNames == {NoName, "A"}

InitNames ==
    /\ \E kind \in Kinds : InitGraph(kind)
    /\ search = NoSearch
    /\ saved = [name |-> NoName]

\* g.add_vertex(name=name); saved keeps the name given
AddVertexNamed ==
    /\ Len(vertex) < MaxVertices
    /\ \E name \in GivenNames :
          LET w == IF graph.kind = "U"
                   THEN UndirectedGraph_add_vertex(Here, None, name)
                   ELSE Graph_add_directed_vertex(Here, None, name)
          IN /\ Becomes(w)
             /\ call' = Call("add_vertex", None, None, None, FALSE, w)
             /\ saved' = [name |-> name]
    /\ UNCHANGED search

NextNames ==
    \/ AddVertexNamed
    \/ RemoveVertex

SpecNames == InitNames /\ [][NextNames]_vars

---------------------------------------------------------------------------
(* Two graphs, and vertices of both classes: the variable graph is the
   first graph object, saved.graph2 the second *)

\* Graph.add_vertex(KindVertex(coord, name)) called on the superclass
Graph_add_vertex_of(w, kind, coord, name) ==
    LET w1 == [w EXCEPT !.vertex = Append(@, Vertex_init(kind, coord, name))]
    IN Graph_add_vertex(w1, Len(w1.vertex), NoName)

GraphIds == {1, 2}

\* the graph object with identity g, and the world seen from it
GraphOf(g) == IF g = 1 THEN graph ELSE saved.graph2
View(g) == World(GraphOf(g), vertex, edge)

\* the world a call on graph g leaves behind becomes the state
BecomesIn(g, w) ==
    /\ vertex' = w.vertex
    /\ edge' = w.edge
    /\ IF g = 1
       THEN graph' = w.graph /\ saved' = saved
       ELSE graph' = graph /\ saved' = [saved EXCEPT !.graph2 = w.graph]

InitMixed ==
    /\ InitGraph("U")
    /\ search = NoSearch
    /\ saved = [graph2 |-> [Graph_init("D", "L1", "L1") EXCEPT !.id = 2]]

\* Graph.add_vertex(g, UndirectedVertex()) or Graph.add_vertex(g, DirectedVertex())
MixedAddVertex ==
    /\ Len(vertex) < MaxVertices
    /\ \E g \in GraphIds, kind \in Kinds :
          LET w == Graph_add_vertex_of(View(g), kind, None, NoName)
          IN /\ BecomesIn(g, w)
             /\ call' = Call("add_vertex", None, None, None, FALSE, w)
    /\ UNCHANGED search

\* add_edge(v1, v2, cost=cost), that is v1.connect(v2, cost=cost), for any
\* two vertices: the graph the edge goes to is v1._graph
MixedAddEdge ==
    /\ Len(edge) < MaxEdges
    /\ \E v1 \in 1..Len(vertex), v2 \in 1..Len(vertex), cost \in CostChoices :
          LET g == vertex[v1].graph
              w == Graph_add_edge(View(g), v1, v2, cost)
          IN /\ BecomesIn(g, w)
             /\ call' = Call("add_edge", v1, v2, cost, FALSE, w)
    /\ UNCHANGED search

NextMixed ==
    \/ MixedAddVertex
    \/ MixedAddEdge

SpecMixed == InitMixed /\ [][NextMixed]_vars

---------------------------------------------------------------------------
(* add_edge with and without a cost, between vertices with and without a
   coordinate *)

GivenCoords == {None, 0, 2}
GivenCosts == {None, 1}

\* g.add_vertex(coord=coord)
CostAddVertex ==
    /\ Len(vertex) < MaxVertices
    /\ \E coord \in GivenCoords :
          LET w == IF graph.kind = "U"
                   THEN UndirectedGraph_add_vertex(Here, coord, NoName)
                   ELSE Graph_add_directed_vertex(Here, coord, NoName)
          IN /\ Becomes(w)
             /\ call' = Call("add_vertex", coord, None, None, FALSE, w)
    /\ UNCHANGED <<search, saved>>

\* g.add_edge(v1, v2) and g.add_edge(v1, v2, cost=cost)
CostAddEdge ==
    /\ Len(edge) < MaxEdges
    /\ \E v1 \in Range(graph.vertexlist), v2 \in Range(graph.vertexlist),
          cost \in GivenCosts :
          LET w == Graph_add_edge(Here, v1, v2, cost)
          IN /\ Becomes(w)
             /\ call' = Call("add_edge", v1, v2, cost, FALSE, w)
    /\ UNCHANGED <<search, saved>>

NextCost ==
    \/ CostAddVertex
    \/ CostAddEdge

SpecCost == Init /\ [][NextCost]_vars

---------------------------------------------------------------------------
(* Connected components of a directed graph.  The labelling pass is run    *)
(* in steps: the initial labelling pass, then one step per iteration of    *)
(* the merge loop, then the renumbering.  The variable saved holds where   *)
(* the call stands (pc), the merge table, the vertices the merge loop has  *)
(* still to visit, the set unique, and the number of times the merge loop  *)
(* has replaced the label of the vertex it is at (hops).                   *)

ColourVertices == 4
ColourEdges == 4
FunctionalVertices == 5

\* the label of the first neighbour of ns that has one (None: there is none)
InheritedLabel(w, ns) ==
    LET idx == {i \in 1..Len(ns) : w.vertex[ns[i]].label # None}
    IN IF idx = {} THEN None
       ELSE w.vertex[ns[CHOOSE i \in idx : \A j \in idx : i <= j]].label

\* "now look for clashes": for n in v.neighbours()
RECURSIVE ClashLoop(_, _, _, _)
ClashLoop(w, v, ns, merge) ==
    IF ns = <<>> THEN [w |-> w, merge |-> merge]
    ELSE LET n == Head(ns)
         IN IF w.vertex[n].label = None
            THEN ClashLoop([w EXCEPT !.vertex[n].label = w.vertex[v].label],
                           v, Tail(ns), merge)
            ELSE IF w.vertex[v].label # w.vertex[n].label
            THEN ClashLoop(w, v, Tail(ns),
                           DictSet(merge, w.vertex[n].label, w.vertex[v].label))
            ELSE ClashLoop(w, v, Tail(ns), merge)

\* the initial labelling pass: for v in self, over the vertices vs
RECURSIVE LabelPass(_, _, _, _)
LabelPass(w, vs, merge, nextlabel) ==
    IF vs = <<>> THEN [w |-> w, merge |-> merge]
    ELSE LET v == Head(vs)
             ns == Vertex_neighbours(w, v)
             inherited == IF w.vertex[v].label = None
                          THEN InheritedLabel(w, ns) ELSE w.vertex[v].label
             fresh == inherited = None
             w1 == [w EXCEPT !.vertex[v].label =
                       IF fresh THEN nextlabel ELSE inherited]
             r == ClashLoop(w1, v, ns, merge)
         IN LabelPass(r.w, Tail(vs), r.merge,
                      IF fresh THEN nextlabel + 1 ELSE nextlabel)

NoColour == [pc |-> "idle"]

\* DirectedGraph._graphcolor up to the merge loop.  A graph with nothing
\* dirty skips the pass, and "len(unique)" after it raises UnboundLocalError
DirectedGraph_graphcolor(w) ==
    IF "_connectivitychange" \notin w.graph.attrs
    THEN [w |-> Raise(w, "AttributeError"), c |-> [pc |-> "done"]]
    ELSE IF w.graph.connectivitychange
            \/ \E v \in Range(w.graph.vertexlist) : w.vertex[v].connectivitychange
    THEN LET r == LabelPass(ClearLabels(w), w.graph.vertexlist, EmptyDict, 1)
         IN [w |-> r.w,
             c |-> [pc |-> "merge", merge |-> r.merge,
                    todo |-> w.graph.vertexlist, unique |-> {}, hops |-> 0]]
    ELSE [w |-> Raise(w, "UnboundLocalError"), c |-> [pc |-> "done"]]

\* one iteration of "while v.label in merge", or its end: unique.add(v.label)
MergeStep(w, c) ==
    IF c.todo = <<>> THEN [w |-> w, c |-> [c EXCEPT !.pc = "final"]]
    ELSE LET v == Head(c.todo)
         IN IF w.vertex[v].label \in DOMAIN c.merge
            THEN [w |-> [w EXCEPT !.vertex[v].label = c.merge[@]],
                  c |-> [c EXCEPT !.hops = @ + 1]]
            ELSE [w |-> w,
                  c |-> [c EXCEPT !.unique = @ \cup {w.vertex[v].label},
                                  !.todo = Tail(@), !.hops = 0]]

\* final = {u: i for i, u in enumerate(unique)}; v.label = final[v.label];
\* self._ncomponents = len(unique), order being the iteration order of the
\* set unique
Renumber(w, c, order) ==
    [w EXCEPT !.vertex = [v \in DOMAIN w.vertex |->
                 IF InSeq(v, w.graph.vertexlist)
                 THEN [w.vertex[v] EXCEPT !.label = IndexOf(@, order) - 1]
                 ELSE w.vertex[v]],
              !.graph.ncomponents = Cardinality(c.unique),
              !.graph.attrs = @ \cup {"_ncomponents"}]

\* The merge loop follows the fixed table merge from the label of a vertex:
\* once it has replaced the label more often than the table has keys some
\* label has come up twice, and the loop never ends.
ColourDiverged(c) == c.pc = "merge" /\ c.hops > Cardinality(DOMAIN c.merge)

---------------------------------------------------------------------------
(* incidence *)

\* the orders in which the iteration over the set S can give its members
Orders(S) ==
    {f \in [1..Cardinality(S) -> S] : \A i, j \in 1..Cardinality(S) : f[i] = f[j] => i = j}

\* the pairs <<i, e>> of "for i, e in enumerate(vertex.edges())" for the
\* vertices vs, in the order the loops of incidence() visit them
RECURSIVE IncidenceEntries(_, _)
IncidenceEntries(w, vs) ==
    IF vs = <<>> THEN <<>>
    ELSE [i \in 1..Len(w.vertex[Head(vs)].edgelist) |->
             <<i - 1, w.vertex[Head(vs)].edgelist[i]>>]
         \o IncidenceEntries(w, Tail(vs))

\* I[i, edict[e]] = 1 for the pairs of todo: edict[e] raises KeyError for an
\* edge that edges() does not hold, I[i, ...] raises IndexError for a row the
\* matrix does not have
RECURSIVE IncidenceFill(_, _, _, _, _)
IncidenceFill(w, edges, rows, todo, ones) ==
    IF todo = <<>> THEN Return(w, [rows |-> rows, cols |-> Len(edges), ones |-> ones])
    ELSE LET i == Head(todo)[1]
             e == Head(todo)[2]
         IN IF ~InSeq(e, edges) THEN Raise(w, "KeyError")
            ELSE IF i >= rows THEN Raise(w, "IndexError")
            ELSE IncidenceFill(w, edges, rows, Tail(todo),
                               ones \cup {<<i, IndexOf(e, edges) - 1>>})

\* Graph.incidence(), edges being the order in which the set self.edges()
\* is iterated: the matrix is its shape and the set of its entries that are 1
Graph_incidence(w, edges) ==
    IncidenceFill(w, edges, Cardinality(DOMAIN w.graph.vertexdict),
                  IncidenceEntries(w, w.graph.vertexlist), {})

\* g.incidence()
Incidence ==
    /\ \E edges \in Orders(graph.edgelist) :
          LET w == Graph_incidence(Here, edges)
          IN /\ Becomes(w)
             /\ call' = Call("incidence", edges, None, None, FALSE, w)
    /\ UNCHANGED <<search, saved>>

NextIncidence ==
    \/ AddVertex
    \/ AddEdge
    \/ Incidence

SpecIncidence == Init /\ [][NextIncidence]_vars

---------------------------------------------------------------------------
(* The searches as a state machine, on graphs built through the API *)

\* g.add_vertex(coord, name) for a graph of either kind
add_vertex(w, coord, name) ==
    IF w.graph.kind = "U" THEN UndirectedGraph_add_vertex(w, coord, name)
    ELSE Graph_add_directed_vertex(w, coord, name)

\* n add_vertex calls, the i-th vertex at coordinate i-1
RECURSIVE AddVertices(_, _)
AddVertices(w, n) ==
    IF n = 0 THEN w
    ELSE LET w1 == AddVertices(w, n - 1) IN add_vertex(w1, n - 1, NoName)

\* the add_edge calls of a script, a sequence of <<v1, v2, cost>>
RECURSIVE AddEdges(_, _)
AddEdges(w, es) ==
    IF es = <<>> THEN w
    ELSE AddEdges(Graph_add_edge(w, es[1][1], es[1][2], es[1][3]), Tail(es))

SearchCosts == {1, 3}

\* every sequence of at most SearchEdges add_edge calls between the
\* SearchVertices vertices: loops and parallel edges included
EdgeScripts ==
    UNION {[1..n -> (1..SearchVertices) \X (1..SearchVertices) \X SearchCosts] :
             n \in 0..SearchEdges}

\* the pairs a < b of 1..SimpleVertices, in lexicographic order
RECURSIVE PairsFrom(_, _)
PairsFrom(a, b) ==
    IF a >= SimpleVertices THEN <<>>
    ELSE IF b > SimpleVertices THEN PairsFrom(a + 1, a + 2)
    ELSE <<<<a, b>>>> \o PairsFrom(a, b + 1)

SimplePairs == PairsFrom(1, 2)

\* the add_edge calls of a simple graph: c[i] is the cost of the i-th pair,
\* 0 for no edge
RECURSIVE SimpleScript(_, _)
SimpleScript(c, i) ==
    IF i > Len(SimplePairs) THEN <<>>
    ELSE (IF c[i] = 0 THEN <<>> ELSE <<<<SimplePairs[i][1], SimplePairs[i][2], c[i]>>>>)
         \o SimpleScript(c, i + 1)

\* the pairs a < b of 1..SearchVertices
InSearchVertices(p) == p[2] <= SearchVertices
LoopPairs == SelectSeq(SimplePairs, InSearchVertices)

\* the add_edge calls of a graph with loops: an edge from v to itself for
\* every v with l[v], then an edge for the i-th pair with c[i], all of cost 1
RECURSIVE LoopScript(_, _, _)
LoopScript(l, c, i) ==
    IF i > SearchVertices + Len(LoopPairs) THEN <<>>
    ELSE (IF i <= SearchVertices
          THEN (IF l[i] THEN <<<<i, i, 1>>>> ELSE <<>>)
          ELSE (IF c[i - SearchVertices]
                THEN <<<<LoopPairs[i - SearchVertices][1],
                         LoopPairs[i - SearchVertices][2], 1>>>>
                ELSE <<>>))
         \o LoopScript(l, c, i + 1)

FreshWorld(kind) == World(Graph_init(kind, "L1", "L1"), <<>>, <<>>)

IsWorld(w) ==
    /\ graph = w.graph
    /\ vertex = w.vertex
    /\ edge = w.edge

InitSearch ==
    /\ \/ \E kind \in Kinds, es \in EdgeScripts :
             IsWorld(AddEdges(AddVertices(FreshWorld(kind), SearchVertices), es))
       \/ \E c \in [1..Len(SimplePairs) -> {0} \cup SearchCosts] :
             IsWorld(AddEdges(AddVertices(FreshWorld("U"), SimpleVertices),
                              SimpleScript(c, 1)))
       \/ \E kind \in Kinds, l \in [1..SearchVertices -> BOOLEAN],
             c \in [1..Len(LoopPairs) -> BOOLEAN] :
             IsWorld(AddEdges(AddVertices(FreshWorld(kind), SearchVertices),
                              LoopScript(l, c, 1)))
    /\ call = NoCall
    /\ search = NoSearch
    /\ saved = <<>>

Algorithms == {"BFS", "UCS", "Astar"}

\* g.path_BFS(S, G), g.path_UCS(S, G) or g.path_Astar(S, G) is called
PathCall ==
    /\ search.pc = "idle"
    /\ \E alg \in Algorithms, S \in Range(graph.vertexlist), G \in Range(graph.vertexlist) :
          search' = StartSearch(alg, S, G)
    /\ UNCHANGED <<graph, vertex, edge, call, saved>>

\* the call runs one step further
SearchStep ==
    /\ search.pc \in {"loop", "expand", "walk"}
    /\ Len(search.path) <= MaxWalk
    /\ search' = Step(Here, search)
    /\ UNCHANGED <<graph, vertex, edge, call, saved>>

NextSearch ==
    \/ PathCall
    \/ SearchStep

SpecSearch == InitSearch /\ [][NextSearch]_vars

---------------------------------------------------------------------------
(* A graph built call by call, then searched *)

\* g.add_vertex(coord=[n]) for the n-th vertex, before any search
BuildVertex ==
    /\ search.pc = "idle"
    /\ Len(vertex) < MaxVertices
    /\ LET w == add_vertex(Here, Len(vertex), NoName)
       IN /\ Becomes(w)
          /\ call' = Call("add_vertex", Len(vertex), None, None, FALSE, w)
    /\ UNCHANGED <<search, saved>>

\* g.add_edge(v1, v2, cost=cost), before any search
BuildEdge ==
    /\ search.pc = "idle"
    /\ AddEdge

NextBuild ==
    \/ BuildVertex
    \/ BuildEdge
    \/ PathCall
    \/ SearchStep

SpecBuild == Init /\ [][NextBuild]_vars

---------------------------------------------------------------------------
(* Graphs in which vertices share a coordinate, searched *)

\* one add_vertex call for every coordinate of the sequence cs
RECURSIVE AddVerticesAt(_, _)
AddVerticesAt(w, cs) ==
    IF cs = <<>> THEN w
    ELSE AddVerticesAt(add_vertex(w, Head(cs), NoName), Tail(cs))

TieCosts == {1, 2, 3}
TieCoords == {2, 3}

\* five vertices on a line, the first and third at 0, the second at 1, the
\* fourth at x and the fifth at 2, with the edges 1-2, 1-3, 2-4 and 3-5 of
\* the costs c[1]..c[4]
TieGraph(x, c) ==
    AddEdges(AddVerticesAt(FreshWorld("U"), <<0, 1, 0, x, 2>>),
             <<<<1, 2, c[1]>>, <<1, 3, c[2]>>, <<2, 4, c[3]>>, <<3, 5, c[4]>>>>)

InitTies ==
    /\ \E x \in TieCoords, c \in [1..4 -> TieCosts] : IsWorld(TieGraph(x, c))
    /\ call = NoCall
    /\ search = NoSearch
    /\ saved = <<>>

SpecTies == InitTies /\ [][NextSearch]_vars

---------------------------------------------------------------------------
(* number_of_components on directed graphs built through the API *)

\* every sequence of at most ColourEdges add_edge calls between the
\* ColourVertices vertices
ColourScripts ==
    UNION {[1..n -> (1..ColourVertices) \X (1..ColourVertices) \X {1}] :
             n \in 0..ColourEdges}

\* the add_edge calls of a graph in which the vertex i has the one edge to
\* out[i], or none when out[i] = 0, added in the order of the vertices
RECURSIVE FunctionalScript(_, _)
FunctionalScript(out, i) ==
    IF i > FunctionalVertices THEN <<>>
    ELSE (IF out[i] = 0 THEN <<>> ELSE <<<<i, out[i], 1>>>>)
         \o FunctionalScript(out, i + 1)

InitColour ==
    /\ \/ \E es \in ColourScripts :
             IsWorld(AddEdges(AddVertices(FreshWorld("D"), ColourVertices), es))
       \/ \E out \in [1..FunctionalVertices -> 0..FunctionalVertices] :
             /\ \A i \in 1..FunctionalVertices : out[i] # i
             /\ IsWorld(AddEdges(AddVertices(FreshWorld("D"), FunctionalVertices),
                                 FunctionalScript(out, 1)))
    /\ call = NoCall
    /\ search = NoSearch
    /\ saved = NoColour

\* g.number_of_components is called: self._graphcolor() starts
ColourCall ==
    /\ saved.pc = "idle"
    /\ LET r == DirectedGraph_graphcolor(Here)
       IN /\ Becomes(r.w)
          /\ saved' = r.c
          /\ call' = Call("number_of_components", None, None, None, FALSE, r.w)
    /\ UNCHANGED search

\* the merge loop runs one iteration further
ColourMergeStep ==
    /\ saved.pc = "merge"
    /\ ~ColourDiverged(saved)
    /\ LET r == MergeStep(Here, saved)
       IN /\ Becomes(r.w)
          /\ saved' = r.c
    /\ UNCHANGED <<call, search>>

\* the labels are renumbered and number_of_components returns
ColourReturn ==
    /\ saved.pc = "final"
    /\ \E order \in Orders(saved.unique) :
          LET w == Renumber(Here, saved, order)
          IN /\ Becomes(w)
             /\ call' = Call("number_of_components", None, None, None, FALSE,
                             Return(w, w.graph.ncomponents))
    /\ saved' = [saved EXCEPT !.pc = "done"]
    /\ UNCHANGED search

NextColour ==
    \/ ColourCall
    \/ ColourMergeStep
    \/ ColourReturn

SpecColour == InitColour /\ [][NextColour]_vars

---------------------------------------------------------------------------
(* The scenario of four vertices A, B, C, D with the edges A-B, B-C, A-C
   and C-D, for every choice of the four costs *)

ScenarioCosts == {1, 2, 5}

\* the coordinates put the vertices on a line: A at 0, B at 1, C at 3, D at 4
ScenarioVertices(w) ==
    add_vertex(add_vertex(add_vertex(add_vertex(w, 0, "A"), 1, "B"), 3, "C"), 4, "D")

\* the undirected graph of the scenario with the costs c[1]..c[4]
Scenario(c) ==
    LET w == ScenarioVertices(FreshWorld("U"))
        A == w.graph.vertexdict["A"]
        B == w.graph.vertexdict["B"]
        C == w.graph.vertexdict["C"]
        D == w.graph.vertexdict["D"]
    IN AddEdges(w, << <<A, B, c[1]>>, <<B, C, c[2]>>, <<A, C, c[3]>>, <<C, D, c[4]>> >>)

InitScenario ==
    /\ \E c \in [1..4 -> ScenarioCosts] : IsWorld(Scenario(c))
    /\ call = NoCall
    /\ search = NoSearch
    /\ saved = <<>>

SpecScenario == InitScenario /\ [][NextSearch]_vars

---------------------------------------------------------------------------
(* The frontier-bounded search that cli.py calls as graph.path_sma(start,
   end, bound).  No class of the source defines it; it is modelled from its
   specification: the loop of path_Astar, with one check of the frontier
   size against the bound per expansion step, made before the expansion
   ("check-before") or after it ("check-after"). *)

BoundChoices == {0, 1, 2}
Policies == {"check-before", "check-after"}

\* the locals of a bounded search: those of path_Astar, the bound and the
\* policy
Bounded_start(S, G, bound, policy) ==
    StartSearch("Astar", S, G) @@ [bound |-> bound, policy |-> policy]

\* the search stands where its policy checks the frontier: at the head of
\* the loop, for check-after only once a vertex has been expanded
BoundChecked(s) ==
    /\ s.pc = "loop"
    /\ s.policy = "check-before" \/ s.explored # <<>>

\* the frontier holds more vertices than the bound allows, as
\* MutantBoundOffByOne a variant that allows one vertex more
MutantBoundOffByOne(s) == Len(s.frontier) > s.bound + 1

BoundExceeded(s) == Len(s.frontier) > s.bound

\* one step of the bounded search: it ends with FrontierBoundExceeded, its
\* explored sequence and parent map as they are, or goes on as path_Astar
Bounded_step(w, s) ==
    IF BoundChecked(s) /\ BoundExceeded(s)
    THEN Finish(s, "FrontierBoundExceeded")
    ELSE Step(w, s)

\* graph.path_sma(S, G, bound) is called
BoundedCall ==
    /\ search.pc = "idle"
    /\ \E S \in Range(graph.vertexlist), G \in Range(graph.vertexlist),
          bound \in BoundChoices, policy \in Policies :
          search' = Bounded_start(S, G, bound, policy)
    /\ UNCHANGED <<graph, vertex, edge, call, saved>>

\* the call runs one step further
BoundedStep ==
    /\ search.pc \in {"loop", "expand", "walk"}
    /\ Len(search.path) <= MaxWalk
    /\ search' = Bounded_step(Here, search)
    /\ UNCHANGED <<graph, vertex, edge, call, saved>>

NextBounded ==
    \/ BoundedCall
    \/ BoundedStep

SpecBounded == InitScenario /\ [][NextBounded]_vars

---------------------------------------------------------------------------
(* remove(e) followed by add_edge with the endpoints and the cost of e *)

\* what path_UCS reports for S and G
Reported(w, S, G) ==
    LET r == path_UCS(w, S, G)
    IN [result |-> IF r.pc = "done" THEN r.result ELSE "diverged",
        length |-> IF r.pc = "done" /\ r.result = "path" THEN r.length ELSE None]

\* number_of_components (undirected graphs) and the report of path_UCS for
\* every pair of vertices
Snapshot(w) ==
    [nc |-> IF w.graph.kind = "U"
            THEN LET r == number_of_components(w) IN <<r.err, r.ret>>
            ELSE <<NoError, None>>,
     ucs |-> [S \in Range(w.graph.vertexlist), G \in Range(w.graph.vertexlist) |->
                Reported(w, S, G)]]

InitRoundTrip ==
    /\ \/ \E kind \in Kinds, es \in EdgeScripts :
             IsWorld(AddEdges(AddVertices(FreshWorld(kind), SearchVertices), es))
       \/ \E c \in [1..Len(SimplePairs) -> {0} \cup SearchCosts] :
             IsWorld(AddEdges(AddVertices(FreshWorld("U"), SimpleVertices),
                              SimpleScript(c, 1)))
    /\ call = NoCall
    /\ search = NoSearch
    /\ saved = [stage |-> "start"]

\* the snapshot is taken and g.remove(e) is called for an edge e of the graph
RoundTripRemove ==
    /\ saved.stage = "start"
    /\ \E e \in graph.edgelist :
          LET w == Graph_remove_edge(Here, e)
          IN /\ Becomes(w)
             /\ call' = Call("remove", e, edge[e].v1, edge[e].v2, TRUE, w)
             /\ saved' = [stage |-> "removed", before |-> Snapshot(Here),
                          cost |-> edge[e].cost]
    /\ UNCHANGED search

\* g.add_edge(v1, v2, cost) is called with the endpoints and the cost of e
RoundTripAdd ==
    /\ saved.stage = "removed"
    /\ call.err = NoError
    /\ LET w == Graph_add_edge(Here, call.a2, call.a3, saved.cost)
       IN /\ Becomes(w)
          /\ call' = Call("add_edge", call.a2, call.a3, saved.cost, FALSE, w)
          /\ saved' = [saved EXCEPT !.stage = "readded"]
    /\ UNCHANGED search

NextRoundTrip ==
    \/ RoundTripRemove
    \/ RoundTripAdd

SpecRoundTrip == InitRoundTrip /\ [][NextRoundTrip]_vars

---------------------------------------------------------------------------
(* Stack.  A heap h holds the list objects (h.list, a list's identity is   *)
(* its index) and for every Stack object the list its attribute __stack    *)
(* refers to (h.stack).  The list object of the default argument           *)
(* "stack=[]" is made once, when the def statement runs.                   *)

MaxStack == 3
StackItems == {1, 2, 3}

\* the list object that is the default value of the parameter stack
DefaultList == 1

\* the heap once class Stack is defined
StackHeap == [list |-> <<<<>>>>, stack |-> <<>>]

Result(h, err, ret) == [h |-> h, err |-> err, ret |-> ret]

\* Stack(): self.__stack = stack, the default value
Stack_init(h) == [h EXCEPT !.stack = Append(@, DefaultList)]

\* s.push(item)
Stack_push(h, s, item) ==
    Result([h EXCEPT !.list[h.stack[s]] = Append(@, item)], NoError, None)

\* s.pop(): list.pop() raises IndexError on an empty list
Stack_pop(h, s) ==
    LET l == h.list[h.stack[s]]
    IN IF l = <<>> THEN Result(h, "IndexError", None)
       ELSE Result([h EXCEPT !.list[h.stack[s]] = Front(l)], NoError, Last(l))

\* s.peek(): self.__stack[-1] raises IndexError on an empty list
Stack_peek(h, s) ==
    LET l == h.list[h.stack[s]]
    IN IF l = <<>> THEN Result(h, "IndexError", None)
       ELSE Result(h, NoError, Last(l))

\* s.is_empty()
Stack_is_empty(h, s) == Result(h, NoError, Len(h.list[h.stack[s]]) = 0)

\* a = Stack(); b = Stack(): a is the Stack object 1, b the Stack object 2
InitStack ==
    /\ InitGraph("U")
    /\ search = NoSearch
    /\ saved = Stack_init(Stack_init(StackHeap))

\* the state after a Stack call with the result r
StackCalled(op, s, item, r) ==
    /\ saved' = r.h
    /\ call' = Call(op, s, item, None, FALSE, r)
    /\ UNCHANGED <<graph, vertex, edge, search>>

\* a.push(item)
StackPush ==
    /\ Len(saved.list[saved.stack[1]]) < MaxStack
    /\ \E item \in StackItems : StackCalled("push", 1, item, Stack_push(saved, 1, item))

\* a.pop()
StackPop == StackCalled("pop", 1, None, Stack_pop(saved, 1))

\* b.is_empty(), b.peek() and b.pop()
StackOther ==
    \/ StackCalled("is_empty", 2, None, Stack_is_empty(saved, 2))
    \/ StackCalled("peek", 2, None, Stack_peek(saved, 2))
    \/ StackCalled("pop", 2, None, Stack_pop(saved, 2))

NextStack ==
    \/ StackPush
    \/ StackPop
    \/ StackOther

SpecStack == InitStack /\ [][NextStack]_vars

---------------------------------------------------------------------------
(* Graph-theoretic definitions the claims are stated with.  They read the *)
(* graph's vertex list and edge set only, never the incidence lists or    *)
(* the labels the code computes.                                          *)

VerticesOf(w) == Range(w.graph.vertexlist)

\* an edge of the edge set joins a and b
Linked(w, a, b) ==
    \E e \in w.graph.edgelist : {w.edge[e].v1, w.edge[e].v2} = {a, b}

RECURSIVE Closure(_, _)
Closure(w, S) ==
    LET T == S \cup {b \in VerticesOf(w) : \E a \in S : Linked(w, a, b)}
    IN IF T = S THEN S ELSE Closure(w, T)

\* the connected component of a, edges taken in both directions
ComponentOf(w, a) == Closure(w, {a})

ComponentCount(w) == Cardinality({ComponentOf(w, a) : a \in VerticesOf(w)})

\* the edges with x as an endpoint
EdgesAt(x) == {e \in 1..Len(edge) : edge[e].v1 = x \/ edge[e].v2 = x}

\* the edges some vertex of the graph holds in its incidence list
Incident == UNION {Range(vertex[v].edgelist) : v \in VerticesOf(Here)}

\* an edge of the edge set can be traversed from a to b
Arc(w, a, b) ==
    \E e \in w.graph.edgelist :
        \/ w.edge[e].v1 = a /\ w.edge[e].v2 = b
        \/ w.graph.kind = "U" /\ w.edge[e].v1 = b /\ w.edge[e].v2 = a

\* the cost of the cheapest edge traversable from a to b
ArcCost(w, a, b) ==
    LET cs == {w.edge[e].cost : e \in {e \in w.graph.edgelist :
                  \/ w.edge[e].v1 = a /\ w.edge[e].v2 = b
                  \/ w.graph.kind = "U" /\ w.edge[e].v1 = b /\ w.edge[e].v2 = a}}
    IN CHOOSE c \in cs : \A d \in cs : c <= d

\* the vertices at most k traversable edges away from S
RECURSIVE Ball(_, _, _)
Ball(w, S, k) ==
    IF k = 0 THEN {S}
    ELSE LET B == Ball(w, S, k - 1)
         IN B \cup {b \in VerticesOf(w) : \E a \in B : Arc(w, a, b)}

Reachable(w, S, G) == G \in Ball(w, S, Len(w.graph.vertexlist))

\* the least number of edges of a path from S to G
MinEdges(w, S, G) ==
    CHOOSE k \in 0..Len(w.graph.vertexlist) :
        G \in Ball(w, S, k) /\ \A j \in 0..(k-1) : G \notin Ball(w, S, j)

\* more than any path costs
Infinity(w) == 1 + Len(w.graph.vertexlist) * Len(w.edge) * 10

FoldMin(S) == CHOOSE c \in S : \A d \in S : c <= d

\* Bellman-Ford: d after k more rounds of relaxation
RECURSIVE Relax(_, _, _)
Relax(w, d, k) ==
    IF k = 0 THEN d
    ELSE Relax(w,
               [b \in VerticesOf(w) |->
                  FoldMin({d[b]} \cup {d[a] + ArcCost(w, a, b) :
                                        a \in {a \in VerticesOf(w) : Arc(w, a, b)}})],
               k - 1)

\* the least total cost of a path from S to G (Infinity: there is none)
MinCost(w, S, G) ==
    Relax(w, [v \in VerticesOf(w) |-> IF v = S THEN 0 ELSE Infinity(w)],
          Len(w.graph.vertexlist))[G]

\* the heuristic towards G never falls by more than the cost of an edge
\* (consistent), which with h(G) = 0 makes it admissible
Consistent(w, G) ==
    /\ \A v \in VerticesOf(w) : w.vertex[v].coord # None
    /\ \A a \in VerticesOf(w), b \in VerticesOf(w) :
          Arc(w, a, b) =>
             heuristic_distance(w, a, G) <= ArcCost(w, a, b) + heuristic_distance(w, b, G)

NonNegative(w) == \A e \in w.graph.edgelist : w.edge[e].cost # None /\ w.edge[e].cost >= 0

\* the search that is running or has ended
Searching == search.pc # "idle"
Returned == search.pc = "done"

---------------------------------------------------------------------------
(* Claims *)

\* C5: on an undirected graph reached by at least one add_vertex, add_edge or
\* remove call, number_of_components returns the number of connected
\* components of the current graph (0 for a graph left with no vertex), and
\* a second call right after it returns the same value.
C5_ComponentCountCorrect ==
    (graph.kind = "U" /\ Len(vertex) > 0) =>
        LET w1 == number_of_components(Here)
            w2 == number_of_components([w1 EXCEPT !.err = NoError])
        IN /\ w1.err = NoError
           /\ w1.ret = ComponentCount(Here)
           /\ w2.err = NoError
           /\ w2.ret = w1.ret

\* C6: in an undirected graph, an add_edge between two vertices of different
\* components lowers number_of_components by exactly one, and an add_edge
\* between two vertices of one component leaves it unchanged.
C6_AddEdgeStep ==
    (/\ call'.op = "add_edge"
     /\ call'.err = NoError
     /\ Len(edge') = Len(edge) + 1
     /\ graph.kind = "U")
    => /\ number_of_components(Here).err = NoError
       /\ number_of_components(Here').err = NoError
       /\ number_of_components(Here').ret =
             IF call'.a2 \in ComponentOf(Here, call'.a1)
             THEN number_of_components(Here).ret
             ELSE number_of_components(Here).ret - 1

C6_AddEdgeLowersByOne == [][C6_AddEdgeStep]_vars

\* C8: after remove(v) on a vertex v of the graph (directed or undirected),
\* v is in neither the vertex list nor the name index, and no edge with v as
\* an endpoint is left in the edge set or in an incidence list of a
\* remaining vertex.
C8_RemoveVertexCascades ==
    (call.op = "remove_vertex" /\ call.member) =>
        /\ ~InSeq(call.a1, graph.vertexlist)
        /\ \A n \in DOMAIN graph.vertexdict : graph.vertexdict[n] # call.a1
        /\ EdgesAt(call.a1) \cap graph.edgelist = {}
        /\ EdgesAt(call.a1) \cap Incident = {}

\* C9: remove(e) on an edge e of the graph (directed or undirected) raises
\* nothing, and afterwards e is in no incidence list and not in the edge
\* set, and both endpoints of e and the graph are marked dirty.
C9_RemoveEdgeDetaches ==
    (call.op = "remove_edge" /\ call.member) =>
        /\ call.err = NoError
        /\ \A v \in 1..Len(vertex) : ~InSeq(call.a1, vertex[v].edgelist)
        /\ call.a1 \notin graph.edgelist
        /\ vertex[call.a2].connectivitychange
        /\ vertex[call.a3].connectivitychange
        /\ graph.connectivitychange

\* C10: a call of add_vertex, add_edge or remove that ends in an error leaves
\* the vertex list, the name index, the edge set and every incidence list as
\* they were before the call.
C10_ErrorStep ==
    (call'.err # NoError
     /\ call'.op \in {"add_vertex", "add_edge", "remove_edge", "remove_vertex"})
    => /\ graph'.vertexlist = graph.vertexlist
       /\ graph'.vertexdict = graph.vertexdict
       /\ graph'.edgelist = graph.edgelist
       /\ Len(vertex') = Len(vertex)
       /\ \A v \in 1..Len(vertex) : vertex'[v].edgelist = vertex[v].edgelist

C10_ErrorLeavesGraphUnchanged == [][C10_ErrorStep]_vars

\* C1: on a graph with non-negative edge costs and G reachable from S,
\* path_UCS and path_Astar (heuristic admissible and consistent) both return
\* a path, report the same cost, and that cost is the least total edge cost
\* of a path from S to G.
C1_LeastCost ==
    (/\ Searching
     /\ search.alg \in {"UCS", "Astar"}
     /\ NonNegative(Here)
     /\ Reachable(Here, search.S, search.G)
     /\ Consistent(Here, search.G))
    => /\ ~Diverged(Here, search)
       /\ Returned =>
            /\ search.result = "path"
            /\ search.length = MinCost(Here, search.S, search.G)
            /\ LET other == IF search.alg = "UCS"
                            THEN path_Astar(Here, search.S, search.G)
                            ELSE path_UCS(Here, search.S, search.G)
               IN other.result = "path" /\ other.length = search.length

\* C2: a path that path_BFS returns leads from S to G along traversable
\* edges and has the least number of edges of all paths from S to G.
C2_BFSFewestEdges ==
    (Returned /\ search.alg = "BFS" /\ search.result = "path") =>
        /\ Head(search.path) = search.S
        /\ Last(search.path) = search.G
        /\ \A i \in 1..(Len(search.path) - 1) :
              Arc(Here, search.path[i], search.path[i + 1])
        /\ Len(search.path) - 1 = MinEdges(Here, search.S, search.G)

\* C2 witness: path_BFS has returned a path of two edges although the first
\* neighbour of S starts a path of three edges to G
C2_Witness ==
    /\ Returned
    /\ search.alg = "BFS"
    /\ search.result = "path"
    /\ Len(search.path) = 3
    /\ \E a \in VerticesOf(Here), b \in VerticesOf(Here) :
          /\ Cardinality({search.S, a, b, search.G}) = 4
          /\ Vertex_neighbours(Here, search.S)[1] = a
          /\ search.path[2] = b
          /\ Arc(Here, a, b)
          /\ ~Arc(Here, a, search.G)

\* C4: every call of path_BFS, path_UCS and path_Astar returns: the no-path
\* result when G is not reachable from S along traversable edges, a path
\* when it is, and never raises an error.
C4_PathIffReachable ==
    Searching =>
       /\ ~Diverged(Here, search)
       /\ Returned =>
            search.result = IF Reachable(Here, search.S, search.G) THEN "path" ELSE "None"

\* the vertices of the scenario
VertexA == graph.vertexdict["A"]
VertexB == graph.vertexdict["B"]
VertexC == graph.vertexdict["C"]
VertexD == graph.vertexdict["D"]

\* path_BFS(A, D) has returned
BFSFromAToD ==
    /\ Returned
    /\ search.alg = "BFS"
    /\ search.S = VertexA
    /\ search.G = VertexD

\* C3 as stated: in the scenario, whatever the edge costs are, path_BFS from
\* A to D returns the path [A,B,C,D] of 3 edges.
C3_BFSReturnsABCD ==
    BFSFromAToD =>
        /\ search.result = "path"
        /\ search.path = <<VertexA, VertexB, VertexC, VertexD>>

\* C3 amended: in the scenario, whatever the edge costs are, path_BFS from
\* A to D returns the path [A,C,D] of 2 edges, and reports the cost of the
\* edges A-C and C-D.
C3_BFSReturnsACD ==
    BFSFromAToD =>
        /\ search.result = "path"
        /\ search.path = <<VertexA, VertexC, VertexD>>
        /\ Len(search.path) - 1 = 2
        /\ search.length = ArcCost(Here, VertexA, VertexC) + ArcCost(Here, VertexC, VertexD)

\* C3 witness: path_BFS(A, D) has returned with the costs A-B 1, B-C 2,
\* A-C 5 and C-D 1
C3_Witness ==
    /\ BFSFromAToD
    /\ ArcCost(Here, VertexA, VertexB) = 1
    /\ ArcCost(Here, VertexB, VertexC) = 2
    /\ ArcCost(Here, VertexA, VertexC) = 5
    /\ ArcCost(Here, VertexC, VertexD) = 1
    /\ search.length = 6

\* C7: remove(e) followed by add_edge with the same endpoints and cost
\* completes and leaves number_of_components and the cost path_UCS reports
\* for every pair of vertices as they were before the removal.
C7_RoundTripRestores ==
    /\ saved.stage = "removed" => call.err = NoError
    /\ saved.stage = "readded" =>
          /\ call.err = NoError
          /\ Snapshot(Here) = saved.before

\* C11: after any sequence of add_vertex calls (with or without a name)
\* and remove calls, no two vertices of the vertex list have the same name.
C11_NamesUnique ==
    \A i \in 1..Len(graph.vertexlist), j \in 1..Len(graph.vertexlist) :
        i # j => vertex[graph.vertexlist[i]].name # vertex[graph.vertexlist[j]].name

\* C12: an add_vertex with a name that a vertex of the graph already has
\* fails with DuplicateName and adds no vertex.
C12_DuplicateStep ==
    (/\ call'.op = "add_vertex"
     /\ saved'.name # NoName
     /\ \E v \in Range(graph.vertexlist) : vertex[v].name = saved'.name)
    => /\ call'.err = "DuplicateName"
       /\ graph'.vertexlist = graph.vertexlist
       /\ graph'.vertexdict = graph.vertexdict

C12_DuplicateNameRejected == [][C12_DuplicateStep]_vars

\* an add_edge between v1 = call'.a1 and v2 = call'.a2 was rejected: it
\* raised, and no edge object, edge set or incidence list changed
Rejected ==
    /\ call'.err # NoError
    /\ edge' = edge
    /\ \A g \in GraphIds : GraphOf(g)'.edgelist = GraphOf(g).edgelist
    /\ \A v \in 1..Len(vertex) : vertex'[v].edgelist = vertex[v].edgelist

\* C13: add_edge(v1, v2) for vertices of two different graphs is rejected
\* with an error and creates no edge, so both endpoints of every edge
\* belong to the same graph.
C13_CrossGraphStep ==
    /\ (call'.op = "add_edge" /\ vertex[call'.a1].graph # vertex[call'.a2].graph)
          => Rejected
    /\ \A g \in GraphIds : \A e \in GraphOf(g)'.edgelist :
          vertex'[edge'[e].v1].graph = vertex'[edge'[e].v2].graph

C13_CrossGraphRejected == [][C13_CrossGraphStep]_vars

\* C14: connecting a directed vertex with an undirected vertex, in either
\* order, is rejected with an error and creates no edge.
C14_KindStep ==
    (call'.op = "add_edge" /\ vertex[call'.a1].kind # vertex[call'.a2].kind)
       => Rejected

C14_KindMismatchRejected == [][C14_KindStep]_vars

\* C15: an add_edge without a cost gives the edge the metric of the
\* coordinate difference when both endpoints have a coordinate, and fails
\* with an error and creates no edge when one of them has none, so no edge
\* of the graph ever has an absent cost.
C15_CostStep ==
    /\ (call'.op = "add_edge" /\ call'.a3 = None) =>
          IF vertex[call'.a1].coord # None /\ vertex[call'.a2].coord # None
          THEN /\ call'.err = NoError
               /\ call'.ret \in graph'.edgelist
               /\ edge'[call'.ret].cost =
                     metricfunc(graph.metric,
                                vertex[call'.a1].coord - vertex[call'.a2].coord)
          ELSE /\ call'.err # NoError
               /\ edge' = edge
               /\ graph'.edgelist = graph.edgelist
    /\ \A e \in graph'.edgelist : edge'[e].cost # None

C15_MissingCostRejected == [][C15_CostStep]_vars

\* C16: after add_edge(v1, v2) in an undirected graph the edge is in the
\* incidence lists of v1 and of v2, and each is a neighbour of the other;
\* in a directed graph it is in the incidence list of v1 only, v2 is a
\* neighbour of v1, and the edge does not make v1 a neighbour of v2; the
\* searches go from a vertex to its neighbours only: every parent has its
\* child as a neighbour, and so has every vertex of a returned path its
\* successor.
C16_DirectionStep ==
    /\ (call'.op = "add_edge" /\ call'.err = NoError /\ Len(edge') = Len(edge) + 1) =>
          LET e == call'.ret
              v1 == call'.a1
              v2 == call'.a2
          IN /\ edge'[e].v1 = v1 /\ edge'[e].v2 = v2
             /\ vertex'[v1].edgelist = Append(vertex[v1].edgelist, e)
                   \/ (v1 = v2 /\ graph.kind = "U"
                       /\ vertex'[v1].edgelist = vertex[v1].edgelist \o <<e, e>>)
             /\ InSeq(v2, Vertex_neighbours(Here', v1))
             /\ IF graph.kind = "U"
                THEN /\ InSeq(e, vertex'[v2].edgelist)
                     /\ InSeq(v1, Vertex_neighbours(Here', v2))
                ELSE v1 # v2 =>
                       /\ vertex'[v2].edgelist = vertex[v2].edgelist
                       /\ InSeq(v1, Vertex_neighbours(Here', v2))
                             <=> InSeq(v1, Vertex_neighbours(Here, v2))
    /\ search'.pc # "idle" =>
          /\ \A n \in DOMAIN search'.parent :
                InSeq(n, Vertex_neighbours(Here', search'.parent[n]))
          /\ \A i \in 1..(Len(search'.path) - 1) :
                InSeq(search'.path[i + 1], Vertex_neighbours(Here', search'.path[i]))

C16_EdgeDirections == [][C16_DirectionStep]_vars

\* C16 witness: in a directed graph a search has returned the path from v1
\* to v2 along an edge added as add_edge(v1, v2), and v1 is no neighbour
\* of v2
C16_Witness ==
    /\ graph.kind = "D"
    /\ Returned
    /\ search.result = "path"
    /\ Len(search.path) = 2
    /\ search.S # search.G
    /\ \E e \in graph.edgelist : edge[e].v1 = search.S /\ edge[e].v2 = search.G
    /\ ~InSeq(search.S, Vertex_neighbours(Here, search.G))

\* C17: path_BFS, path_UCS and path_Astar called with start S and goal S,
\* for any vertex S of any graph, return the path [S] with cost 0.
C17_StartIsGoal ==
    (Searching /\ search.S = search.G) =>
        /\ ~Diverged(Here, search)
        /\ Returned =>
             /\ search.result = "path"
             /\ search.path = <<search.S>>
             /\ search.length = 0

\* C18: every call of path_BFS, path_UCS and path_Astar terminates, on
\* graphs with cycles, with an edge from a vertex to itself and with several
\* edges between two vertices: the walk back along the parent map from the
\* goal reaches the start (a walk that has passed more vertices than the
\* graph has is in a cycle of the parent map, which the walk does not
\* change, and never ends).
C18_WalkReachesStart == Searching => ~Diverged(Here, search)

\* the frontier loop of the running search has ended
LoopEnded == search.pc \in {"walk", "done"}

\* the preconditions of the comparison of path_Astar with path_UCS: the
\* frontier loop of a path_Astar call has ended on a graph with non-negative
\* costs and a consistent heuristic
AstarCompared ==
    /\ Searching
    /\ search.alg = "Astar"
    /\ LoopEnded
    /\ NonNegative(Here)
    /\ Consistent(Here, search.G)

\* the goal is the only vertex whose heuristic distance to the goal is 0
ZeroAtGoalOnly(w, G) ==
    \A v \in VerticesOf(w) : v # G => heuristic_distance(w, v, G) # 0

\* the number of vertices path_UCS moves to explored for the same call
UCSExplored == Len(path_UCS(Here, search.S, search.G).explored)

C20_BoundStep ==
    (/\ search.pc = "loop"
     /\ search.explored # <<>>
     /\ Len(search.frontier) > search.bound)
    => /\ search'.pc = "done"
       /\ search'.result = "FrontierBoundExceeded"
       /\ search'.result # "None"
       /\ search'.explored = search.explored
       /\ search'.parent = search.parent

C20_BoundExceededReported == [][C20_BoundStep]_vars

\* C20: a bounded search that has ended with FrontierBoundExceeded, with
\* vertices explored and parents recorded, where path_Astar returns a path
C20_Witness ==
    /\ Returned
    /\ search.result = "FrontierBoundExceeded"
    /\ search.explored # <<>>
    /\ search.parent # EmptyDict
    /\ path_Astar(Here, search.S, search.G).result = "path"

\* C21: when number_of_components returns, the dirty flag of the graph and
\* the dirty flag of every vertex of the graph are false.
C21_QueryStep ==
    (call'.op = "number_of_components" /\ call'.err = NoError)
    => /\ ~graph'.connectivitychange
       /\ \A v \in Range(graph'.vertexlist) : ~vertex'[v].connectivitychange

C21_QueryClearsDirtyFlags == [][C21_QueryStep]_vars

\* the position in the vertex list of the first vertex of the component of v
FirstOfComponent(w, v) ==
    LET vl == w.graph.vertexlist
    IN CHOOSE i \in 1..Len(vl) :
          /\ vl[i] \in ComponentOf(w, v)
          /\ \A j \in 1..(i-1) : vl[j] \notin ComponentOf(w, v)

\* C22: after number_of_components on an undirected graph with at least one
\* vertex and k components every vertex has a label in 0..k-1, every label
\* in 0..k-1 is carried by a vertex, two vertices carry the same label
\* exactly when a path joins them, and the labels follow the order of the
\* components' first vertices in the vertex list.
C22_LabelsAreComponents ==
    (/\ call.op = "number_of_components"
     /\ call.err = NoError
     /\ graph.vertexlist # <<>>)
    => LET k == ComponentCount(Here)
       IN /\ \A v \in VerticesOf(Here) : vertex[v].label \in 0..(k-1)
          /\ \A l \in 0..(k-1) : \E v \in VerticesOf(Here) : vertex[v].label = l
          /\ \A a \in VerticesOf(Here), b \in VerticesOf(Here) :
                (vertex[a].label = vertex[b].label) <=> (b \in ComponentOf(Here, a))
          /\ \A a \in VerticesOf(Here), b \in VerticesOf(Here) :
                FirstOfComponent(Here, a) < FirstOfComponent(Here, b)
                => vertex[a].label < vertex[b].label

\* C23: incidence() returns a matrix with one row per vertex of the vertex
\* list and one column per edge, in the order of edges(), whose entry [i, j]
\* is 1 exactly when the i-th vertex has the j-th edge in its incidence list.
C23_IncidenceMatrix ==
    call.op = "incidence"
    => /\ call.err = NoError
       /\ call.ret.rows = Len(graph.vertexlist)
       /\ call.ret.cols = Cardinality(graph.edgelist)
       /\ \A i \in 1..Len(graph.vertexlist), j \in 1..Len(call.a1) :
             (<<i - 1, j - 1>> \in call.ret.ones)
             <=> InSeq(call.a1[j], vertex[graph.vertexlist[i]].edgelist)

\* the sum of the costs of the edges a search follows along the path p when
\* it takes, from each vertex, the first edge of the incidence list that
\* leads to the next one
RECURSIVE FollowedCost(_, _)
FollowedCost(w, p) ==
    IF Len(p) < 2 THEN 0
    ELSE w.edge[Vertex_edgeto(w, p[1], p[2])].cost + FollowedCost(w, Tail(p))

\* C24: a path that path_BFS, path_UCS or path_Astar returns starts at the
\* start vertex, ends at the goal, every consecutive pair of it is joined by
\* an edge traversable from the first to the second, and the reported cost
\* is the cost of the edges followed (for path_UCS and path_Astar the
\* cost-to-come recorded for the goal).
C24_PathAndCost ==
    (Returned /\ search.result = "path")
    => /\ Head(search.path) = search.S
       /\ Last(search.path) = search.G
       /\ \A i \in 1..(Len(search.path) - 1) :
             Arc(Here, search.path[i], search.path[i + 1])
       /\ search.alg = "BFS" => search.length = FollowedCost(Here, search.path)
       /\ search.alg = "UCS" => search.length = search.f[search.G]
       /\ search.alg = "Astar" => search.length = search.g[search.G]

\* the cost-to-come map of a search: f in path_UCS, g in path_Astar
CostToCome(s) == IF s.alg = "Astar" THEN s.g ELSE s.f

\* the parent or the cost-to-come recorded for v differs after the step
Rerecorded(v) ==
    \/ v \in DOMAIN search.parent /\ search'.parent[v] # search.parent[v]
    \/ v \in DOMAIN CostToCome(search) /\ CostToCome(search')[v] # CostToCome(search)[v]

\* C25: in path_UCS and path_Astar the parent and the cost-to-come recorded
\* for a vertex change only while the vertex is in the frontier and not in
\* explored, and only to a strictly smaller cost-to-come; in path_BFS a
\* recorded parent is never replaced.
C25_ReparentStep ==
    (search.pc \in {"loop", "expand"} /\ search'.pc # "idle")
    => \A v \in DOMAIN vertex :
          Rerecorded(v)
          => /\ search.alg # "BFS"
             /\ InSeq(v, search.frontier)
             /\ ~InSeq(v, search.explored)
             /\ CostToCome(search')[v] < CostToCome(search)[v]

C25_ReparentOnlyInFrontier == [][C25_ReparentStep]_vars

\* C26: when number_of_components of a directed graph returns, two vertices
\* carry the same label exactly when a path that ignores the direction of
\* the edges joins them, and the value returned is the number of such
\* components.
C26_DirectedLabelsAreComponents ==
    (saved.pc = "done" /\ call.err = NoError)
    => /\ \A a \in VerticesOf(Here), b \in VerticesOf(Here) :
             (vertex[a].label = vertex[b].label) <=> (b \in ComponentOf(Here, a))
       /\ call.ret = ComponentCount(Here)

\* C27: the merge loop of DirectedGraph._graphcolor ends for every vertex
\* (a loop that has replaced the label of a vertex more often than the merge
\* table has keys is in a cycle of the table, which the loop does not
\* change, and never ends).
C27_MergeLoopEnds == ~ColourDiverged(saved)

\* C28: after add_vertex, add_edge and remove calls that all complete
\* without error, every edge of the edge set has both endpoints in the vertex
\* list and is in the incidence list of its v1 (and of its v2 in an
\* undirected graph), every edge of an incidence list is in the edge set,
\* and the vertex list and the name index hold the same vertices.
C28_StructureConsistent ==
    /\ \A e \in graph.edgelist :
          /\ edge[e].v1 \in VerticesOf(Here)
          /\ edge[e].v2 \in VerticesOf(Here)
          /\ InSeq(e, vertex[edge[e].v1].edgelist)
          /\ graph.kind = "U" => InSeq(e, vertex[edge[e].v2].edgelist)
    /\ \A v \in VerticesOf(Here) : Range(vertex[v].edgelist) \subseteq graph.edgelist
    /\ VerticesOf(Here) = {graph.vertexdict[n] : n \in DOMAIN graph.vertexdict}

\* following parents from v reaches S within k steps
RECURSIVE ReachesStart(_, _, _, _)
ReachesStart(parent, v, S, k) ==
    IF v = S THEN TRUE
    ELSE IF k = 0 \/ v \notin DOMAIN parent THEN FALSE
    ELSE ReachesStart(parent, parent[v], S, k - 1)

\* C29: at every step of path_BFS, path_UCS and path_Astar the parent map
\* is a forest rooted at the start vertex: the start vertex has no parent, no
\* vertex is its own parent, and following parents from a vertex that has
\* one reaches the start vertex (so that no vertex is its own ancestor).
C29_ParentForest ==
    Searching
    => /\ search.S \notin DOMAIN search.parent
       /\ \A v \in DOMAIN search.parent :
             /\ search.parent[v] # v
             /\ ReachesStart(search.parent, v, search.S, Len(vertex))

\* C30: of two Stack objects a and b created without an argument, is_empty,
\* peek and pop on b, to which nothing was pushed, give the results of an
\* empty stack whatever was pushed to and popped from a: is_empty returns
\* True, peek and pop raise IndexError.
C30_StacksSeparate ==
    (call.op \in {"is_empty", "peek", "pop"} /\ call.a1 = 2)
    => IF call.op = "is_empty"
       THEN call.err = NoError /\ call.ret = TRUE
       ELSE call.err = "IndexError"

=============================================================================
